---- MODULE Spec2Model ----
(***************************************************************************)
(* Model of pathery: the DynamoDB-backed file store                        *)
(* (packages/pathery/src/directory/filestore.rs), the index provider       *)
(* (packages/pathery/src/index.rs), the index writer worker                *)
(* (handlers/index-writer-worker/src/main.rs) and the HTTP handlers        *)
(* post_index, batch_index and query_index                                 *)
(* (packages/pathery/src/service/index.rs).                                *)
(*                                                                         *)
(* Strings are sequences of tokens, so that the key formats of the file    *)
(* store are real concatenations.                                          *)
(***************************************************************************)
EXTENDS Integers, Sequences, FiniteSets, TLC

VARIABLES
    \* ---- DynamoDB table behind DynamoFileStore --------------------------
    table,      \* the items of the table (what a consistent read sees)
    replica,    \* an earlier state of the table (what a default read may see)
    lastOp,     \* the last FileStore call and what it returned
    written,    \* per path: content of the last completed write_file, or Never
    present,    \* per path: written by a completed write_file, not deleted since
    \* ---- indexes under /mnt/pathery-data and the writer worker ----------
    location,   \* per index id: "absent" or "present" (the index directory)
    committed,  \* per index id: the latest committed generation, as the number
                \* of copies of each document in it
    queue,      \* messages the queue holds (sent, not yet acknowledged)
    sent,       \* number of messages sent to the queue so far
    pc,         \* the worker's position: idle / apply / commit / returned
    records,    \* event.payload.records of the running invocation
    cursor,     \* index of the next message the apply loop handles
    writers,    \* the invocation's HashMap<String, IndexWriter>
    outcome,    \* what the last invocation reported: none / ok / failed
    acked,      \* number of messages the queue deleted after the last invocation
    redelivered,\* the running invocation got the records of the one before
    once,       \* per index id: what the first delivery of records committed
    start,      \* the indexes as they were when the running invocation started
    searcher,   \* the searcher query_index holds, or NoSearcher
    \* ---- HTTP handlers post_index and batch_index ----------------------
    response,   \* the last request handled and the response it got
    \* ---- the FIFO queue and concurrently running worker invocations ----
    fifo,       \* the messages the FIFO queue holds, in the order they were sent
    posted,     \* number of batches sent to the FIFO queue so far
    inv         \* per worker instance: the invocation it runs, or Idle

storeVars  == <<table, replica, lastOp, written, present>>
workerVars == <<location, committed, queue, sent, pc, records, cursor, writers,
                outcome, acked, redelivered, once, start>>
serviceVars == <<response>>
fifoVars   == <<fifo, posted, inv>>
vars       == <<storeVars, workerVars, searcher, serviceVars, fifoVars>>

(***************************************************************************)
(* Bounds                                                                  *)
(***************************************************************************)
MaxSent == 2   \* messages sent to the queue in one behaviour
MaxPosted == 3 \* batches sent to the FIFO queue in one behaviour

(***************************************************************************)
(* DynamoFileStore                                                         *)
(***************************************************************************)
StoreIds == { <<"s1">> }
Paths    == { <<"a">>, <<"b">> }
Contents == { <<>>, <<104, 105>> }

Absent == <<"%absent%">>     \* an attribute the item does not carry
Never  == <<"%never%">>      \* no completed write_file for the path

format_file_header_pk(store_id) ==
    <<"store", "|">> \o store_id \o <<"|", "file_header">>

format_file_content_pk(store_id, path) ==
    <<"store", "|">> \o store_id \o <<"|", "file_content", "|">> \o path

header_sk(path) == <<"file_header", "|">> \o path

header_item(store_id, path) ==
    [pk |-> format_file_header_pk(store_id), sk |-> header_sk(path),
     store_id |-> store_id, path |-> path, content |-> Absent]

content_item(store_id, path, content) ==
    [pk |-> format_file_content_pk(store_id, path),
     sk |-> format_file_content_pk(store_id, path),
     store_id |-> store_id, path |-> Absent, content |-> content]

\* DynamoDB item operations on a table state.
PutItem(tbl, item) ==
    { x \in tbl : ~(x.pk = item.pk /\ x.sk = item.sk) } \cup { item }

DeleteItem(tbl, pk, sk) == { x \in tbl : ~(x.pk = pk /\ x.sk = sk) }

GetItem(tbl, pk, sk) == { x \in tbl : x.pk = pk /\ x.sk = sk }

Query(tbl, pk) == { x \in tbl : x.pk = pk }

\* TransactWriteItems of the two puts: all or nothing.
TransactPut(tbl, items) == PutItem(PutItem(tbl, items[1]), items[2])

HasHeader(tbl, s, p) ==
    GetItem(tbl, format_file_header_pk(s), header_sk(p)) # {}

HasContent(tbl, s, p) ==
    GetItem(tbl, format_file_content_pk(s, p), format_file_content_pk(s, p)) # {}

ContentOf(tbl, s, p) ==
    LET it == GetItem(tbl, format_file_content_pk(s, p), format_file_content_pk(s, p))
    IN  IF it = {} THEN Never ELSE (CHOOSE x \in it : TRUE).content

Call(op, s, p, c, status, error, value) ==
    [op |-> op, store |-> s, path |-> p, content |-> c,
     status |-> status, error |-> error, value |-> value]

NoCall == Call("none", <<>>, <<>>, <<>>, "Ok", "", <<>>)

StoreKeys == StoreIds \X Paths

\* write_file: one TransactWriteItems holding the header put and the content
\* put; `?` returns the SDK error when the transaction is rejected.
write_file_header_first(s, p, c) ==
    /\ \E accepted \in BOOLEAN :
        IF accepted
        THEN /\ table' = TransactPut(table, <<header_item(s, p), content_item(s, p, c)>>)
             /\ lastOp' = Call("write_file", s, p, c, "Ok", "", <<>>)
             /\ written' = [written EXCEPT ![<<s, p>>] = c]
             /\ present' = [present EXCEPT ![<<s, p>>] = TRUE]
        ELSE /\ table' = PutItem(table, header_item(s, p))
             /\ lastOp' = Call("write_file", s, p, c, "Err", "SdkError", <<>>)
             /\ UNCHANGED <<written, present>>
    /\ UNCHANGED <<replica, workerVars, searcher, serviceVars, fifoVars>>

write_file(s, p, c) ==
    /\ \E accepted \in BOOLEAN :
        IF accepted
        THEN /\ table' = TransactPut(table, <<header_item(s, p), content_item(s, p, c)>>)
             /\ lastOp' = Call("write_file", s, p, c, "Ok", "", <<>>)
             /\ written' = [written EXCEPT ![<<s, p>>] = c]
             /\ present' = [present EXCEPT ![<<s, p>>] = TRUE]
        ELSE /\ table' = table
             /\ lastOp' = Call("write_file", s, p, c, "Err", "SdkError", <<>>)
             /\ UNCHANGED <<written, present>>
    /\ UNCHANGED <<replica, workerVars, searcher, serviceVars, fifoVars>>

\* exists: GetItem of the header key with consistent_read(true); the send
\* result is unwrapped, so a failed request panics.
exists(s, p) ==
    /\ \E answered \in BOOLEAN :
        lastOp' = IF answered
                  THEN Call("exists", s, p, <<>>, "Ok", "", HasHeader(table, s, p))
                  ELSE Call("exists", s, p, <<>>, "Panic", "unwrap", FALSE)
    /\ UNCHANGED <<table, replica, written, present, workerVars, searcher, serviceVars, fifoVars>>

\* list_files: Query on the header partition key, without consistent_read:
\* the answer is that of a replica, which may lag behind the table.
ListedPaths(tbl, s) == { item.path : item \in Query(tbl, format_file_header_pk(s)) }

list_files(s) ==
    /\ \E answered \in BOOLEAN :
        lastOp' = IF ~answered
                  THEN Call("list_files", s, <<>>, <<>>, "Err", "SdkError", {})
                  ELSE IF Absent \in ListedPaths(replica, s)
                  THEN Call("list_files", s, <<>>, <<>>, "Panic", "unwrap", {})
                  ELSE Call("list_files", s, <<>>, <<>>, "Ok", "", ListedPaths(replica, s))
    /\ UNCHANGED <<table, replica, written, present, workerVars, searcher, serviceVars, fifoVars>>

\* get_content: GetItem of the content key, without consistent_read; no item
\* means Ok(Vec::new()).
ContentReadNotFound(tbl, s, p) ==
    IF ~HasContent(tbl, s, p)
    THEN Call("get_content", s, p, <<>>, "Err", "NotFound", <<>>)
    ELSE Call("get_content", s, p, <<>>, "Ok", "", ContentOf(tbl, s, p))

ContentRead(tbl, s, p) ==
    LET it == GetItem(tbl, format_file_content_pk(s, p), format_file_content_pk(s, p))
    IN  IF it = {} THEN Call("get_content", s, p, <<>>, "Ok", "", <<>>)
        ELSE IF ContentOf(tbl, s, p) = Absent
        THEN Call("get_content", s, p, <<>>, "Panic", "unwrap", <<>>)
        ELSE Call("get_content", s, p, <<>>, "Ok", "", ContentOf(tbl, s, p))

get_content(s, p) ==
    /\ \E answered \in BOOLEAN :
        lastOp' = IF answered
                  THEN ContentRead(replica, s, p)
                  ELSE Call("get_content", s, p, <<>>, "Err", "SdkError", <<>>)
    /\ UNCHANGED <<table, replica, written, present, workerVars, searcher, serviceVars, fifoVars>>

\* delete: DeleteItem of the header key only.
delete_content_record(s, p) ==
    /\ \E accepted \in BOOLEAN :
        IF accepted
        THEN /\ table' = DeleteItem(table, format_file_content_pk(s, p),
                                    format_file_content_pk(s, p))
             /\ lastOp' = Call("delete", s, p, <<>>, "Ok", "", <<>>)
             /\ present' = [present EXCEPT ![<<s, p>>] = FALSE]
        ELSE /\ lastOp' = Call("delete", s, p, <<>>, "Err", "SdkError", <<>>)
             /\ UNCHANGED <<table, present>>
    /\ UNCHANGED <<replica, written, workerVars, searcher, serviceVars, fifoVars>>

delete(s, p) ==
    /\ \E accepted \in BOOLEAN :
        IF accepted
        THEN /\ table' = DeleteItem(table, format_file_header_pk(s), header_sk(p))
             /\ lastOp' = Call("delete", s, p, <<>>, "Ok", "", <<>>)
             /\ present' = [present EXCEPT ![<<s, p>>] = FALSE]
        ELSE /\ lastOp' = Call("delete", s, p, <<>>, "Err", "SdkError", <<>>)
             /\ UNCHANGED <<table, present>>
    /\ UNCHANGED <<replica, written, workerVars, searcher, serviceVars, fifoVars>>

\* The replicas catch up with the table.
Propagate ==
    /\ replica # table
    /\ replica' = table
    /\ UNCHANGED <<table, lastOp, written, present, workerVars, searcher, serviceVars, fifoVars>>

InitStore ==
    /\ table = {}
    /\ replica = {}
    /\ lastOp = NoCall
    /\ written = [k \in StoreKeys |-> Never]
    /\ present = [k \in StoreKeys |-> FALSE]

NextStore ==
    \/ \E s \in StoreIds, p \in Paths, c \in Contents : write_file(s, p, c)
    \/ \E s \in StoreIds, p \in Paths : exists(s, p)
    \/ \E s \in StoreIds : list_files(s)
    \/ \E s \in StoreIds, p \in Paths : get_content(s, p)
    \/ \E s \in StoreIds, p \in Paths : delete(s, p)
    \/ Propagate

(***************************************************************************)
(* Index provider, writer worker and query handler                         *)
(***************************************************************************)
Indices == { "i1", "i2" }
DocIds  == { "d1", "d2" }
Titles  == { "A", "B" }

\* A tantivy Document: the values of its __id field, in the order they were
\* added, and the rest of its fields.
Doc(ids, title) == [ids |-> ids, title |-> title]
NoDoc == Doc(<<>>, "")

\* The documents that messages carry: with one __id value, with two (a
\* JSON array was given for __id), with none.
Documents ==
    { Doc(<<"d1">>, "A"), Doc(<<"d1">>, "B"), Doc(<<"d2", "d1">>, "B"), Doc(<<>>, "A") }

\* The document has the term among the values of its __id field.
Carries(doc, id) == \E k \in 1..Len(doc.ids) : doc.ids[k] = id

Body(index_id, kind, document, doc_id) ==
    [index_id |-> index_id, kind |-> kind, document |-> document, doc_id |-> doc_id]

\* SQS record bodies: a serialized WriterMessage, no body, or text that is
\* not a WriterMessage.
WriterMessages ==
    { Body(i, "IndexSingleDoc", d, "") : i \in Indices, d \in Documents }
        \cup { Body(i, "DeleteSingleDoc", NoDoc, id) : i \in Indices, id \in DocIds }

NoBody  == Body("", "%none%", NoDoc, "")
BadJson == Body("", "%garbage%", NoDoc, "")

Bodies == WriterMessages \cup { NoBody, BadJson }

\* message.body.as_ref().expect(..) and json::from_str(..).expect(..)
Decodable(body) == body.kind \in { "IndexSingleDoc", "DeleteSingleDoc" }

\* The handler's `for message in messages`: the k-th message handled.
MessageAtReversed(recs, k) == recs[Len(recs) + 1 - k]

MessageAt(recs, k) == recs[k]

\* A writer of the table: the ops it has staged, the calls the commit loop has
\* made on it, whether its staged ops are sealed in a committed generation,
\* and how many times the invocation has loaded its index to obtain it.
NoWriter == [open |-> FALSE, ops |-> <<>>, calls |-> <<>>, sealed |-> FALSE, loads |-> 0]
NewWriter == [open |-> TRUE, ops |-> <<>>, calls |-> <<>>, sealed |-> FALSE, loads |-> 1]

\* writers.entry(index_id).or_insert_with(|| load_index(..).default_writer())
WriterEntryInsert(ws, index_id) == [NewWriter EXCEPT !.loads = ws[index_id].loads + 1]

WriterEntry(ws, index_id) == IF ws[index_id].open THEN ws[index_id] ELSE NewWriter

\* The key of the writer table a message is applied under.
TargetIndexShared(message) == "i1"

TargetIndex(message) == message.index_id

NoGen == [seen |-> FALSE, again |-> FALSE, docs |-> <<>>]
NoSearcher == [index_id |-> "", superseded |-> FALSE, docs |-> <<>>, panic |-> "",
               calls |-> <<>>]

\* A generation is the bag of its documents. An index without documents is
\* what Index::create_in_dir leaves.
EmptyIndex == [d \in {} |-> 0]

Count(docs, d) == IF d \in DOMAIN docs THEN docs[d] ELSE 0

\* tantivy: ops take effect at commit in the order they were issued; a
\* delete_term removes the documents added before it that carry the term.
RECURSIVE ApplyOps(_, _)
ApplyOps(docs, ops) ==
    IF ops = <<>> THEN docs
    ELSE LET op == Head(ops)
         IN  ApplyOps(IF op.op = "delete_term"
                      THEN [d \in { x \in DOMAIN docs : ~Carries(x, op.term) } |-> docs[d]]
                      ELSE [d \in DOMAIN docs \cup { op.doc } |->
                               Count(docs, d) + (IF d = op.doc THEN 1 ELSE 0)],
                      Tail(ops))

\* What can be at /mnt/pathery-data/{index_id}: nothing; a directory with an
\* index; a directory without index metadata; a directory whose index
\* metadata cannot be read; something that cannot be opened as a directory.
Locations == {"absent", "present", "empty", "corrupt", "unreadable"}

\* The index ids the schema loader knows; "i3" is an id without a schema.
Schemas == Indices
IndexIds == Indices \cup {"i3"}

\* PatheryDirectory::open(&directory_path) returns Ok.
PatheryDirectory_open(state) == state \in {"present", "empty", "corrupt"}

\* Index::open(existing_dir) returns Ok.
Index_open(state) == state = "present"

\* fs::create_dir(&directory_path) returns Ok: it fails on a path that exists.
create_dir(state) == state = "absent"

\* self.schema_loader.load_schema(index_id) returns a schema.
load_schema(index_id) == index_id \in Schemas

\* What a call of load_index leaves and gives: the locations, the committed
\* generations, the message of the panic that ended it ("" when it returned
\* the index), and the calls it made.
Loaded(loc, com, panic, calls) ==
    [location |-> loc, committed |-> com, panic |-> panic, calls |-> calls]

\* IndexProvider::load_index: open the directory if it opens, else create it
\* and an empty index in it.
load_index_recreates(loc, com, index_id) ==
    Loaded([loc EXCEPT ![index_id] = "present"], [com EXCEPT ![index_id] = EmptyIndex],
           "", <<"PatheryDirectory::open", "Index::create_in_dir">>)

load_index(loc, com, index_id) ==
    LET state == loc[index_id]
    IN  IF PatheryDirectory_open(state)
        THEN IF Index_open(state)
             THEN Loaded(loc, com, "", <<"PatheryDirectory::open", "Index::open">>)
             ELSE Loaded(loc, com, "Index should be openable",
                         <<"PatheryDirectory::open", "Index::open">>)
        ELSE IF ~create_dir(state)
        THEN Loaded(loc, com, "Directory should be creatable",
                    <<"PatheryDirectory::open", "fs::create_dir">>)
        ELSE IF ~load_schema(index_id)
        THEN Loaded([loc EXCEPT ![index_id] = "empty"], com, "SchemaResolutionError",
                    <<"PatheryDirectory::open", "fs::create_dir", "load_schema">>)
        ELSE Loaded([loc EXCEPT ![index_id] = "present"],
                    [com EXCEPT ![index_id] = EmptyIndex], "",
                    <<"PatheryDirectory::open", "fs::create_dir", "load_schema",
                      "Index::create_in_dir">>)

\* delete_doc: writer.delete_term(Term::from_field_text(id_field, doc_id))
delete_doc_noop(writer, doc_id) == writer

delete_doc_every_id(writer, doc_id) ==
    [writer EXCEPT !.ops = @ \o [k \in 1..2 |->
        [op |-> "delete_term", term |-> IF k = 1 THEN "d1" ELSE "d2", doc |-> NoDoc]]]

delete_doc(writer, doc_id) ==
    [writer EXCEPT !.ops = Append(@, [op |-> "delete_term", term |-> doc_id, doc |-> NoDoc])]

\* doc.get_first(id_field): the first __id value of the document.
get_first(doc) == Head(doc.ids)

\* index_doc: delete_doc(writer, &doc_id), then writer.add_document(doc)
index_doc_add_only(writer, doc) ==
    [writer EXCEPT !.ops = Append(@, [op |-> "add_document", term |-> "", doc |-> doc])]

index_doc(writer, doc) ==
    LET deleted == delete_doc(writer, get_first(doc))
    IN  [deleted EXCEPT !.ops = Append(@, [op |-> "add_document", term |-> "", doc |-> doc])]

\* A dropped writer: what it had staged is gone; what it had committed stays
\* committed.
Dropped(writer) == [NoWriter EXCEPT !.sealed = writer.sealed]

\* A panic (an expect that fails) or the runtime giving up on the invocation:
\* the invocation is reported failed, nothing is acknowledged, the writers
\* are dropped with what they had staged.
Fail ==
    /\ pc' = "idle"
    /\ outcome' = "failed"
    /\ acked' = 0
    /\ cursor' = 1
    /\ writers' = [i \in Indices |-> Dropped(writers[i])]

\* A message reaches the queue.
Enqueue(body) ==
    /\ sent < MaxSent
    /\ queue' = Append(queue, body)
    /\ sent' = sent + 1
    /\ UNCHANGED <<location, committed, pc, records, cursor, writers, outcome, acked,
                   redelivered, once, searcher, start, storeVars, serviceVars, fifoVars>>

\* The handler starts on a polled set: every body is decoded first, then the
\* writer table is created empty.
ReceiveLazily(n) ==
    /\ pc = "idle"
    /\ n \in 1..Len(queue)
    /\ records' = SubSeq(queue, 1, n)
    /\ redelivered' = (records' = records)
    /\ once' = IF records' = records THEN once ELSE [i \in Indices |-> NoGen]
    /\ start' = [committed |-> committed, location |-> location]
    /\ pc' = "apply"
    /\ outcome' = "none"
    /\ acked' = 0
    /\ cursor' = 1
    /\ writers' = [i \in Indices |-> NoWriter]
    /\ UNCHANGED <<location, committed, queue, sent, searcher, storeVars, serviceVars,
                   fifoVars>>

Receive(n) ==
    /\ pc = "idle"
    /\ n \in 1..Len(queue)
    /\ records' = SubSeq(queue, 1, n)
    /\ redelivered' = (records' = records)
    /\ once' = IF records' = records THEN once ELSE [i \in Indices |-> NoGen]
    /\ start' = [committed |-> committed, location |-> location]
    /\ pc' = IF \A k \in 1..n : Decodable(queue[k]) THEN "apply" ELSE "idle"
    /\ outcome' = IF \A k \in 1..n : Decodable(queue[k]) THEN "none" ELSE "failed"
    /\ acked' = 0
    /\ cursor' = 1
    /\ writers' = [i \in Indices |-> NoWriter]
    /\ UNCHANGED <<location, committed, queue, sent, searcher, storeVars, serviceVars,
                   fifoVars>>

\* One turn of the apply loop. (Every message it meets has been decoded by
\* the collect before the loop; a body that does not decode would panic.)
Apply ==
    /\ pc = "apply"
    /\ cursor <= Len(records)
    /\ LET message == MessageAt(records, cursor)
           index_id == TargetIndex(message)
           writer == WriterEntry(writers, index_id)
           loaded == IF writers[index_id].open
                     THEN Loaded(location, committed, "", <<>>)
                     ELSE load_index(location, committed, index_id)
       IN  IF ~Decodable(message)
           THEN Fail /\ UNCHANGED <<location, committed>>
           ELSE /\ location' = loaded.location
                /\ committed' = loaded.committed
                /\ IF \/ loaded.panic # ""
                      \/ message.kind = "IndexSingleDoc" /\ message.document.ids = <<>>
                   THEN Fail
                   ELSE /\ writers' = [writers EXCEPT ![index_id] =
                               IF message.kind = "IndexSingleDoc"
                               THEN index_doc(writer, message.document)
                               ELSE delete_doc(writer, message.doc_id)]
                        /\ cursor' = cursor + 1
                        /\ pc' = IF cursor = Len(records) THEN "commit" ELSE "apply"
                        /\ UNCHANGED <<outcome, acked>>
    /\ UNCHANGED <<queue, sent, records, redelivered, once, searcher, start,
                   storeVars, serviceVars, fifoVars>>

\* The commit loop handles one writer at a time: commit, then
\* wait_merging_threads, then the next writer (in the HashMap's order).
InCommitLoop(i) ==
    /\ pc = "commit"
    /\ writers[i].open
    /\ writers[i].calls = <<>>
    /\ \A j \in Indices : writers[j].calls \in { <<>>, <<"commit", "wait_merging_threads">> }

\* writer.commit() returning Ok: the staged ops become the next generation.
Committed(i) ==
    /\ committed' = [committed EXCEPT ![i] = ApplyOps(@, writers[i].ops)]
    /\ writers' = [writers EXCEPT ![i].calls = <<"commit">>, ![i].sealed = TRUE]
    /\ once' = [once EXCEPT ![i] =
                   IF once[i].seen THEN [@ EXCEPT !.again = TRUE]
                   ELSE [seen |-> TRUE, again |-> FALSE, docs |-> committed'[i]]]
    /\ searcher' = IF searcher.index_id = i
                   THEN [searcher EXCEPT !.superseded = TRUE]
                   ELSE searcher

commit_errors_ignored(i) ==
    /\ InCommitLoop(i)
    /\ \E done \in BOOLEAN :
        /\ IF done THEN Committed(i)
           ELSE /\ writers' = [writers EXCEPT ![i].calls = <<"commit">>]
                /\ UNCHANGED <<committed, once, searcher>>
        /\ UNCHANGED <<pc, outcome, acked, cursor>>
    /\ UNCHANGED <<location, queue, sent, records, redelivered, start, storeVars, serviceVars, fifoVars>>

commit(i) ==
    /\ InCommitLoop(i)
    /\ \E done \in BOOLEAN :
        IF done
        THEN /\ Committed(i)
             /\ UNCHANGED <<pc, outcome, acked, cursor>>
        ELSE /\ Fail
             /\ UNCHANGED <<committed, once, searcher>>
    /\ UNCHANGED <<location, queue, sent, records, redelivered, start, storeVars, serviceVars, fifoVars>>

wait_merging_threads(i) ==
    /\ pc = "commit"
    /\ writers[i].calls = <<"commit">>
    /\ \E done \in BOOLEAN :
        IF done
        THEN /\ writers' = [writers EXCEPT ![i].calls = <<"commit", "wait_merging_threads">>]
             /\ UNCHANGED <<pc, outcome, acked, cursor>>
        ELSE Fail
    /\ UNCHANGED <<location, committed, queue, sent, records, redelivered, once,
                   searcher, start, storeVars, serviceVars, fifoVars>>

\* Ok(()) after the commit loop: the event source deletes the polled
\* messages. (The writer table keeps its last value until the next
\* invocation builds a new one.)
ReturnOk ==
    /\ pc = "commit"
    /\ \A i \in Indices :
          writers[i].open => writers[i].calls = <<"commit", "wait_merging_threads">>
    /\ pc' = "idle"
    /\ outcome' = "ok"
    /\ acked' = Len(records)
    /\ queue' = SubSeq(queue, Len(records) + 1, Len(queue))
    /\ UNCHANGED <<location, committed, sent, records, cursor, writers, redelivered,
                   once, searcher, start, storeVars, serviceVars, fifoVars>>

\* The platform gives up on a running invocation (timeout).
TimeoutFlushes ==
    /\ pc \in { "apply", "commit" }
    /\ Fail
    /\ committed' = [i \in Indices |->
                        IF writers[i].open /\ ~writers[i].sealed
                        THEN ApplyOps(committed[i], writers[i].ops)
                        ELSE committed[i]]
    /\ UNCHANGED <<location, queue, sent, records, redelivered, once, searcher, start,
                   storeVars, serviceVars, fifoVars>>

Timeout ==
    /\ pc \in { "apply", "commit" }
    /\ Fail
    /\ UNCHANGED <<location, committed, queue, sent, records, redelivered, once,
                   searcher, start, storeVars, serviceVars, fifoVars>>

\* query_index: load_index, index.reader(), reader.searcher(): the searcher
\* holds the generation that is committed when it is obtained.
SearcherDocsWithStaged(index_id) ==
    ApplyOps(committed[index_id], writers[index_id].ops)

SearcherDocs(index_id) == committed[index_id]

OpenSearcher(index_id) ==
    /\ searcher = NoSearcher
    /\ LET loaded == load_index(location, committed, index_id)
       IN  /\ location' = loaded.location
           /\ committed' = loaded.committed
           /\ searcher' = IF loaded.panic # ""
                          THEN [NoSearcher EXCEPT !.index_id = index_id,
                                                  !.panic = loaded.panic,
                                                  !.calls = loaded.calls]
                          ELSE [index_id |-> index_id, superseded |-> FALSE,
                                docs |-> SearcherDocs(index_id),
                                panic |-> "", calls |-> loaded.calls]
    /\ UNCHANGED <<queue, sent, pc, records, cursor, writers, outcome, acked,
                   redelivered, once, start, storeVars, serviceVars, fifoVars>>

\* searcher.search(..) and the response: the searcher is dropped.
Search ==
    /\ searcher # NoSearcher
    /\ searcher' = NoSearcher
    /\ UNCHANGED <<workerVars, storeVars, serviceVars, fifoVars>>

\* The file system beneath an index: what is at the location of an index
\* becomes unreadable as an index, or cannot be opened as a directory.
Damage(index_id, state) ==
    /\ location[index_id] \in {"absent", "present"}
    /\ location[index_id] = "absent" => state = "unreadable"
    /\ location' = [location EXCEPT ![index_id] = state]
    /\ UNCHANGED <<committed, queue, sent, pc, records, cursor, writers, outcome, acked,
                   redelivered, once, start, searcher, storeVars, serviceVars, fifoVars>>

(***************************************************************************)
(* HTTP handlers post_index and batch_index                                *)
(***************************************************************************)
\* JSON values of a request body: what the body is, and for an object what
\* it gives for "__id", for the schema field "title", and whether it has a
\* member that is not a field of the schema.
JMissing == [t |-> "missing", v |-> <<>>]
JNumber == [t |-> "number", v |-> <<>>]
JString(s) == [t |-> "string", v |-> <<s>>]
JArray(ss) == [t |-> "array", v |-> ss]
JObject(id, title, other) == [t |-> "object", id |-> id, title |-> title, other |-> other]
JNotObject == [t |-> "array", id |-> JMissing, title |-> JMissing, other |-> FALSE]

JsonDocs ==
    { JNotObject,
      JObject(JString("d1"), JString("A"), FALSE),
      JObject(JMissing, JString("B"), FALSE),
      JObject(JArray(<<"d2", "d1">>), JString("B"), TRUE),
      JObject(JMissing, JNumber, FALSE),
      JObject(JMissing, JMissing, TRUE) }

JsonBatches ==
    { <<>> } \cup { <<a>> : a \in JsonDocs } \cup { <<a, b>> : a, b \in JsonDocs }

\* util::generate_id(): an id no earlier call has returned.
GeneratedIds == <<"g1", "g2", "g3", "g4", "g5", "g6", "g7", "g8">>
generate_id(n) == GeneratedIds[n]

IndexDocOk(doc_id, document) ==
    [ok |-> TRUE, error |-> "", doc_id |-> doc_id, document |-> document]
IndexDocErr(error) == [ok |-> FALSE, error |-> error, doc_id |-> "", document |-> NoDoc]

\* schema.json_object_to_doc: members that are not fields are skipped, a
\* string gives one value, an array one value per item, a number is not a
\* value of a text field.
json_object_to_doc(obj) ==
    IF obj.id.t = "number" \/ obj.title.t = "number"
    THEN IndexDocErr("DocParsingError")
    ELSE IndexDocOk("", Doc(obj.id.v, IF obj.title.v = <<>> THEN "" ELSE Head(obj.title.v)))

is_empty(document) == document.ids = <<>> /\ document.title = ""

\* service::index::index_doc(json_doc, schema); fresh is what generate_id()
\* returns if it is called.
index_doc_of_json_keeps_ids(json_doc, fresh) ==
    IF json_doc.t # "object" THEN IndexDocErr("NotJsonObject")
    ELSE LET parsed == json_object_to_doc(json_doc)
         IN  IF ~parsed.ok THEN parsed
             ELSE IF is_empty(parsed.document) THEN IndexDocErr("EmptyDoc")
             ELSE IF json_doc.id.t = "string"
             THEN IndexDocOk(Head(json_doc.id.v), parsed.document)
             ELSE IndexDocOk(fresh, parsed.document)

index_doc_of_json_always_generates(json_doc, fresh) ==
    IF json_doc.t # "object" THEN IndexDocErr("NotJsonObject")
    ELSE LET parsed == json_object_to_doc(json_doc)
         IN  IF ~parsed.ok THEN parsed
             ELSE IF is_empty(parsed.document) THEN IndexDocErr("EmptyDoc")
             ELSE IndexDocOk(fresh, Doc(Append(parsed.document.ids, fresh),
                                        parsed.document.title))

index_doc_of_json(json_doc, fresh) ==
    IF json_doc.t # "object" THEN IndexDocErr("NotJsonObject")
    ELSE LET parsed == json_object_to_doc(json_doc)
         IN  IF ~parsed.ok THEN parsed
             ELSE IF is_empty(parsed.document) THEN IndexDocErr("EmptyDoc")
             ELSE IF json_doc.id.t = "string"
             THEN IndexDocOk(Head(json_doc.id.v), parsed.document)
             ELSE IndexDocOk(fresh, Doc(Append(parsed.document.ids, fresh),
                                        parsed.document.title))

\* index_writer::batch(index_id) and batch.index_doc(document)
batch(index_id) == [index_id |-> index_id, messages |-> <<>>]

batch_index_doc(b, document) ==
    [b EXCEPT !.messages = Append(@, Body(b.index_id, "IndexSingleDoc", document, ""))]

\* writer_client.write_batch(batch): the messages of the batch reach the
\* queue, in the order of the batch.
write_batch(q, b) == q \o b.messages

Response(op, body, status, error, doc_id, enqueued) ==
    [op |-> op, body |-> body, status |-> status, error |-> error, doc_id |-> doc_id,
     enqueued |-> enqueued]
NoResponse == Response("", <<>>, 0, "", "", 0)

post_index(index_id, body) ==
    /\ LET result == index_doc_of_json(body, generate_id(sent + 1))
       IN  IF ~result.ok
           THEN /\ response' = Response("post_index", <<body>>, 400, result.error, "", 0)
                /\ UNCHANGED <<queue, sent>>
           ELSE /\ sent < MaxSent
                /\ queue' = write_batch(queue, batch_index_doc(batch(index_id),
                                                               result.document))
                /\ sent' = sent + 1
                /\ response' = Response("post_index", <<body>>, 200, "", result.doc_id,
                                        Len(queue') - Len(queue))
    /\ UNCHANGED <<location, committed, pc, records, cursor, writers, outcome, acked,
                   redelivered, once, start, searcher, storeVars, fifoVars>>

\* The batch after the first n elements of the body, and the first element
\* that index_doc rejects (0: none).
RECURSIVE BatchOf(_, _, _, _)
BatchOf(index_id, body, n, first) ==
    IF n = 0 THEN batch(index_id)
    ELSE batch_index_doc(BatchOf(index_id, body, n - 1, first),
                         index_doc_of_json(body[n], generate_id(first + n)).document)

FirstRejected(body, first) ==
    LET bad == { k \in 1..Len(body) : ~index_doc_of_json(body[k], generate_id(first + k)).ok }
    IN  IF bad = {} THEN 0 ELSE CHOOSE k \in bad : \A j \in bad : k <= j

batch_index_writes_each(index_id, body) ==
    /\ sent + Len(body) <= MaxSent
    /\ LET rejected == FirstRejected(body, sent)
           done == IF rejected = 0 THEN Len(body) ELSE rejected - 1
       IN  /\ queue' = write_batch(queue, BatchOf(index_id, body, done, sent))
           /\ sent' = sent + done
           /\ response' =
                IF rejected = 0
                THEN Response("batch_index", body, 200, "", "", Len(queue') - Len(queue))
                ELSE Response("batch_index", body, 400,
                              index_doc_of_json(body[rejected], generate_id(sent + rejected)).error,
                              "", Len(queue') - Len(queue))
    /\ UNCHANGED <<location, committed, pc, records, cursor, writers, outcome, acked,
                   redelivered, once, start, searcher, storeVars, fifoVars>>

batch_index(index_id, body) ==
    /\ LET rejected == FirstRejected(body, sent)
       IN  IF rejected # 0
           THEN /\ response' =
                     Response("batch_index", body, 400,
                              index_doc_of_json(body[rejected], generate_id(sent + rejected)).error,
                              "", 0)
                /\ UNCHANGED <<queue, sent>>
           ELSE /\ sent + Len(body) <= MaxSent
                /\ queue' = write_batch(queue, BatchOf(index_id, body, Len(body), sent))
                /\ sent' = sent + Len(body)
                /\ response' = Response("batch_index", body, 200, "", "",
                                        Len(queue') - Len(queue))
    /\ UNCHANGED <<location, committed, pc, records, cursor, writers, outcome, acked,
                   redelivered, once, start, searcher, storeVars, fifoVars>>

InitService == response = NoResponse

(***************************************************************************)
(* The FIFO queue and concurrently running worker invocations              *)
(***************************************************************************)
Workers == { "w1", "w2" }

Idle == [running |-> FALSE, records |-> <<>>, cursor |-> 1, held |-> {}]

\* The message group a batch for index_id is sent under.
GroupKey(index_id) == index_id

\* post_index / batch_index: write_batch sends the batch of index_id.
SendBatch(index_id) ==
    /\ posted < MaxPosted
    /\ fifo' = Append(fifo, [n |-> posted + 1, index_id |-> index_id,
                             group |-> GroupKey(index_id)])
    /\ posted' = posted + 1
    /\ UNCHANGED <<inv, storeVars, workerVars, searcher, serviceVars>>

InFlight == UNION { { inv[w].records[k] : k \in 1..Len(inv[w].records) } : w \in Workers }

\* What a receive of the FIFO queue may return: messages of groups that have
\* no message in flight, and of each group the oldest ones.
Deliverable(S) ==
    /\ S # {}
    /\ \A m \in S : \A f \in InFlight : f.group # m.group
    /\ \A m \in S : \A k \in 1..Len(fifo) :
          (fifo[k].group = m.group /\ fifo[k].n < m.n) => fifo[k] \in S

InSet(S, m) == m \in S

\* An invocation of the handler starts on a polled set, with an empty
\* writer table.
Invoke(w, S) ==
    /\ ~inv[w].running
    /\ Deliverable(S)
    /\ inv' = [inv EXCEPT ![w] =
                  [running |-> TRUE,
                   records |-> SelectSeq(fifo, LAMBDA m : InSet(S, m)),
                   cursor |-> 1, held |-> {}]]
    /\ UNCHANGED <<fifo, posted, storeVars, workerVars, searcher, serviceVars>>

\* One turn of its apply loop: the writer of the message's index is in the
\* table from here on.
ApplyOn(w) ==
    /\ inv[w].running
    /\ inv[w].cursor <= Len(inv[w].records)
    /\ inv' = [inv EXCEPT ![w].held = @ \cup { TargetIndex(inv[w].records[inv[w].cursor]) },
                          ![w].cursor = @ + 1]
    /\ UNCHANGED <<fifo, posted, storeVars, workerVars, searcher, serviceVars>>

\* The invocation ends: after the commit loop with Ok (the polled messages
\* are deleted), or at any point with a failure (they stay in the queue).
Complete(w, ok) ==
    /\ inv[w].running
    /\ ok => inv[w].cursor > Len(inv[w].records)
    /\ fifo' = IF ok
               THEN SelectSeq(fifo, LAMBDA m :
                        ~InSet({ inv[w].records[k] : k \in 1..Len(inv[w].records) }, m))
               ELSE fifo
    /\ inv' = [inv EXCEPT ![w] = Idle]
    /\ UNCHANGED <<posted, storeVars, workerVars, searcher, serviceVars>>

InitFifo ==
    /\ fifo = <<>>
    /\ posted = 0
    /\ inv = [w \in Workers |-> Idle]

NextFifo ==
    \/ \E i \in Indices : SendBatch(i)
    \/ \E w \in Workers : \E S \in SUBSET { fifo[k] : k \in 1..Len(fifo) } : Invoke(w, S)
    \/ \E w \in Workers : ApplyOn(w)
    \/ \E w \in Workers, ok \in BOOLEAN : Complete(w, ok)

InitWorker ==
    /\ location = [i \in IndexIds |-> "absent"]
    /\ committed = [i \in IndexIds |-> EmptyIndex]
    /\ queue = <<>>
    /\ sent = 0
    /\ pc = "idle"
    /\ records = <<>>
    /\ cursor = 1
    /\ writers = [i \in Indices |-> NoWriter]
    /\ outcome = "none"
    /\ acked = 0
    /\ redelivered = FALSE
    /\ once = [i \in Indices |-> NoGen]
    /\ start = [committed |-> committed, location |-> location]
    /\ searcher = NoSearcher

Init == InitStore /\ InitWorker /\ InitService /\ InitFifo

WorkerSteps ==
    \/ \E n \in 1..MaxSent : Receive(n)
    \/ Apply
    \/ \E i \in Indices : commit(i)
    \/ \E i \in Indices : wait_merging_threads(i)
    \/ ReturnOk
    \/ Timeout

NextWorker ==
    \/ \E body \in Bodies : Enqueue(body)
    \/ WorkerSteps

\* The messages sent while a query handler runs beside the worker: those of
\* one index.
QueryBodies == { body \in WriterMessages : body.index_id = "i1" }

Next ==
    \/ \E body \in QueryBodies : Enqueue(body)
    \/ WorkerSteps
    \/ \E i \in Indices : OpenSearcher(i)
    \/ Search

\* The HTTP handlers alone.
NextHttp ==
    \/ \E i \in Indices, body \in JsonDocs : post_index(i, body)
    \/ \E i \in Indices, body \in JsonBatches : batch_index(i, body)

\* The write pipeline: the requests for one index that pass validation, and
\* the worker.
AcceptedDocs == { json \in JsonDocs : index_doc_of_json(json, "").ok }

NextPipeline ==
    \/ \E body \in AcceptedDocs : post_index("i1", body)
    \/ \E a, b \in AcceptedDocs : batch_index("i1", <<a, b>>)
    \/ WorkerSteps

\* The queue keeps delivering what it holds, and no step of the handler
\* fails for ever: each turn of the apply loop, the commit, the merge wait
\* and the return succeed at some delivery.
PipelineFairness ==
    /\ WF_vars(\E n \in 1..MaxSent : Receive(n))
    /\ \A k \in 1..MaxSent : SF_vars(Apply /\ cursor = k /\ pc' # "idle")
    /\ SF_vars(commit("i1") /\ pc' # "idle")
    /\ SF_vars(wait_merging_threads("i1") /\ pc' # "idle")
    /\ SF_vars(ReturnOk)

\* The worker, a query handler and the file system beneath the indexes.
LoadBodies == { Body("i1", "IndexSingleDoc", Doc(<<"d1">>, "A"), ""),
                Body("i1", "DeleteSingleDoc", NoDoc, "d1") }
LoadIds == {"i1", "i3"}

NextLoad ==
    \/ \E body \in LoadBodies : Enqueue(body)
    \/ WorkerSteps
    \/ \E i \in LoadIds : OpenSearcher(i)
    \/ Search
    \/ \E i \in LoadIds, state \in {"corrupt", "unreadable"} : Damage(i, state)

\* Several stores in one table: store ids and paths are any strings, among
\* them strings that hold the separator and the words of the key formats.
IsoStoreIds == { <<"s1">>, <<"s2">>, <<"s1", "|", "file_content", "|", "x">> }
IsoPaths    == { <<"y">>, <<"x", "|", "file_content", "|", "y">> }
IsoContents == { <<104, 105>> }

\* The files the callers of the stores work on.
IsoKeys ==
    { <<<<"s1">>, <<"x", "|", "file_content", "|", "y">>>>,
      <<<<"s1", "|", "file_content", "|", "x">>, <<"y">>>>,
      <<<<"s2">>, <<"y">>>> }

InitIsolation ==
    /\ table = {}
    /\ replica = {}
    /\ lastOp = NoCall
    /\ written = [k \in IsoKeys |-> Never]
    /\ present = [k \in IsoKeys |-> FALSE]
    /\ InitWorker /\ InitService /\ InitFifo

NextIsolation ==
    \/ \E k \in IsoKeys, c \in IsoContents : write_file(k[1], k[2], c)
    \/ \E k \in IsoKeys : exists(k[1], k[2])
    \/ \E s \in IsoStoreIds : list_files(s)
    \/ \E k \in IsoKeys : get_content(k[1], k[2])
    \/ \E k \in IsoKeys : delete(k[1], k[2])
    \/ Propagate

\* The file store alone, under any interleaving of its callers.
SpecStore == Init /\ [][NextStore]_vars

\* The queue and the writer worker.
SpecWorker == Init /\ [][NextWorker]_vars

\* The queue, the writer worker and a concurrent query handler.
Spec == Init /\ [][Next]_vars

\* The HTTP handlers that send to the queue.
SpecHttp == Init /\ [][NextHttp]_vars

\* The write pipeline under fair delivery and no permanent failure.
SpecPipeline == Init /\ [][NextPipeline]_vars /\ PipelineFairness

\* The worker and a query handler over locations that may be damaged.
SpecLoad == Init /\ [][NextLoad]_vars

\* Stores that share the table.
SpecIsolation == InitIsolation /\ [][NextIsolation]_vars

\* The FIFO queue and two worker instances.
SpecFifo == Init /\ [][NextFifo]_vars

(***************************************************************************)
(* Claims about the file store                                             *)
(***************************************************************************)
LastKey == <<lastOp.store, lastOp.path>>

\* C3 (File round-trip): exists(p) answers whether p was written by a completed
\* write_file and not deleted since; after write_file(p, c), list_files()
\* holds exactly the written paths and get_content(p) returns c.
C3_FileRoundTrip ==
    lastOp.status = "Ok" =>
        /\ lastOp.op = "exists" => lastOp.value = present[LastKey]
        /\ lastOp.op = "list_files" =>
               lastOp.value = { p \in Paths : present[<<lastOp.store, p>>] }
        /\ (lastOp.op = "get_content" /\ present[LastKey]) =>
               lastOp.value = written[LastKey]

\* The part of the round trip that the consistent read of exists() decides.
C3_ExistsRoundTrip ==
    (lastOp.op = "exists" /\ lastOp.status = "Ok") => lastOp.value = present[LastKey]

\* C4 (Listing completeness): list_files() returns exactly the paths that
\* have a header record in the table.
C4_ListingCompleteness ==
    (lastOp.op = "list_files" /\ lastOp.status = "Ok") =>
        lastOp.value = { p \in Paths : HasHeader(table, lastOp.store, p) }

\* C5 as stated (Transaction atomicity): after write_file either both records
\* of the path exist or neither does, and a failed write_file leaves neither.
C5_FailedWriteLeavesNeither ==
    lastOp.op = "write_file" =>
        /\ HasHeader(table, lastOp.store, lastOp.path)
               <=> HasContent(table, lastOp.store, lastOp.path)
        /\ lastOp.status = "Err" =>
               /\ ~HasHeader(table, lastOp.store, lastOp.path)
               /\ ~HasContent(table, lastOp.store, lastOp.path)

\* C5 amended: a completed write_file leaves the header and the content it
\* was given; a failed one returns an error and leaves the header and the
\* content record of the path exactly as the earlier completed calls left them.
C5_FailedWriteChangesNothing ==
    lastOp.op = "write_file" =>
        IF lastOp.status = "Ok"
        THEN /\ HasHeader(table, lastOp.store, lastOp.path)
             /\ ContentOf(table, lastOp.store, lastOp.path) = lastOp.content
        ELSE /\ lastOp.status = "Err"
             /\ HasHeader(table, lastOp.store, lastOp.path) <=> present[LastKey]
             /\ ContentOf(table, lastOp.store, lastOp.path) = written[LastKey]

C5_Witness ==
    /\ lastOp.op = "write_file"
    /\ lastOp.status = "Err"
    /\ present[LastKey]
    /\ written[LastKey] # lastOp.content

\* C6 (Header/content lockstep): no path has a header record without a
\* content record.
C6_HeaderImpliesContent ==
    \A s \in StoreIds, p \in Paths : HasHeader(table, s, p) => HasContent(table, s, p)

C6_Witness ==
    /\ lastOp.op = "write_file"
    /\ lastOp.status = "Err"
    /\ \E s \in StoreIds, p, q \in Paths :
          /\ HasHeader(table, s, p)
          /\ HasContent(table, s, q)
          /\ ~HasHeader(table, s, q)

\* C7 as stated (Missing-content policy): get_content of a path with no
\* content record returns the empty byte sequence and never an error.
C7_MissingContentNeverError ==
    (lastOp.op = "get_content" /\ ~HasContent(table, lastOp.store, lastOp.path)) =>
        /\ lastOp.status = "Ok"
        /\ lastOp.value = <<>>

\* C7 amended: get_content of a path with no content record returns the empty
\* byte sequence whenever its GetItem request is answered; the only error it
\* returns is the failure of the request itself, never a not-found error.
C7_MissingContentIsEmpty ==
    (lastOp.op = "get_content" /\ ~HasContent(table, lastOp.store, lastOp.path)) =>
        \/ lastOp.status = "Ok" /\ lastOp.value = <<>>
        \/ lastOp.status = "Err" /\ lastOp.error = "SdkError"

C7_Witness ==
    /\ lastOp.op = "get_content"
    /\ lastOp.status = "Ok"
    /\ lastOp.value = <<>>
    /\ ~HasContent(table, lastOp.store, lastOp.path)
    /\ \E q \in Paths : HasHeader(table, lastOp.store, q)

(***************************************************************************)
(* Claims about the writer worker and the query handler                    *)
(***************************************************************************)
\* The document id a message is about: the id its delete_term is issued for.
MsgId(m) == IF m.kind = "IndexSingleDoc" THEN get_first(m.document) ELSE m.doc_id

\* The message deletes the documents with the id or adds a document with it.
Touches(m, id) == IF m.kind = "IndexSingleDoc" THEN Carries(m.document, id) ELSE m.doc_id = id

\* The ids a message is about: every id its document carries, or the id it
\* deletes.
IdsOf(m) ==
    IF m.kind = "IndexSingleDoc"
    THEN { m.document.ids[n] : n \in 1..Len(m.document.ids) }
    ELSE { m.doc_id }

\* No message of recs after the k-th is about an id of the k-th, in its index.
Final(recs, k) ==
    \A j \in (k + 1)..Len(recs) :
        recs[j].index_id = recs[k].index_id =>
            \A id \in IdsOf(recs[k]) : ~Touches(recs[j], id)

RECURSIVE SumOver(_, _)
SumOver(docs, S) ==
    IF S = {} THEN 0
    ELSE LET d == CHOOSE x \in S : TRUE IN docs[d] + SumOver(docs, S \ {d})

\* The number of documents of a generation that carry the id.
NumWithId(docs, id) == SumOver(docs, { d \in DOMAIN docs : Carries(d, id) })

\* docs holds what the last message of recs for each id of index i asks for.
Reflects(docs, recs, i) ==
    \A k \in 1..Len(recs) :
        (recs[k].index_id = i /\ Final(recs, k)) =>
            IF recs[k].kind = "DeleteSingleDoc"
            THEN NumWithId(docs, recs[k].doc_id) = 0
            ELSE /\ Count(docs, recs[k].document) = 1
                 /\ NumWithId(docs, MsgId(recs[k])) = 1

\* C1 (Upsert idempotence): when the invocation has applied two Index messages
\* with the same id to an index (the second one being the last message for
\* that id) and committed, the index holds exactly one document with that id,
\* and it is the document of the second message.
C1_UpsertLastWriteWins ==
    \A i \in Indices : writers[i].sealed =>
        \A j, k \in 1..Len(records) :
            ( /\ j < k
              /\ records[j].kind = "IndexSingleDoc" /\ records[j].index_id = i
              /\ records[k].kind = "IndexSingleDoc" /\ records[k].index_id = i
              /\ MsgId(records[j]) = MsgId(records[k])
              /\ Final(records, k) )
            => /\ NumWithId(committed[i], MsgId(records[k])) = 1
               /\ Count(committed[i], records[k].document) = 1

C1_Witness ==
    \E i \in Indices :
        /\ writers[i].sealed
        /\ Len(records) = 2
        /\ records[1].kind = "IndexSingleDoc" /\ records[1].index_id = i
        /\ records[2].kind = "IndexSingleDoc" /\ records[2].index_id = i
        /\ MsgId(records[1]) = MsgId(records[2])
        /\ records[1].document # records[2].document
        /\ redelivered

\* C2 (Order sensitivity): the messages of an index are applied in arrival
\* order, so after the commit the last message for each id decides: a Delete
\* leaves no document with the id, an Index leaves exactly its document.
C2_LaterMessageOverrides ==
    \A i \in Indices : writers[i].sealed => Reflects(committed[i], records, i)

C2_Witness ==
    \E i \in Indices :
        /\ writers[i].sealed
        /\ Len(records) = 2
        /\ records[1].kind = "IndexSingleDoc" /\ records[1].index_id = i
        /\ records[2].kind = "DeleteSingleDoc" /\ records[2].index_id = i
        /\ MsgId(records[1]) = records[2].doc_id
        /\ outcome = "ok"

\* C8 (Commit visibility): a searcher holds the generation that was committed
\* when it was obtained, never what a writer has staged; one obtained after
\* the invocation's commit of its index holds what the invocation's messages
\* for that index ask for.
C8_CommitVisibility ==
    (searcher # NoSearcher /\ ~searcher.superseded) =>
        /\ searcher.docs = committed[searcher.index_id]
        /\ writers[searcher.index_id].sealed =>
               Reflects(searcher.docs, records, searcher.index_id)

C8_Witness ==
    /\ searcher # NoSearcher
    /\ ~searcher.superseded
    /\ pc \in { "apply", "commit" }
    /\ writers[searcher.index_id].open
    /\ ~writers[searcher.index_id].sealed
    /\ ApplyOps(committed[searcher.index_id], writers[searcher.index_id].ops)
           # searcher.docs

C8_WitnessAfterCommit ==
    /\ searcher # NoSearcher
    /\ ~searcher.superseded
    /\ writers[searcher.index_id].sealed
    /\ \E d \in Documents : Count(searcher.docs, d) = 1

\* C9 (All-or-failed invocation): an invocation that reported success has
\* committed, and then merge-waited, the writer of every index its messages
\* name, and all its messages are acknowledged; an invocation that reported
\* failure has none of its messages acknowledged.
C9_AllOrFailed ==
    /\ outcome = "ok" =>
          /\ acked = Len(records)
          /\ \A k \in 1..Len(records) :
                LET w == writers[records[k].index_id]
                IN  w.sealed /\ w.calls = <<"commit", "wait_merging_threads">>
    /\ outcome = "failed" =>
          /\ acked = 0
          /\ Len(queue) >= Len(records)
          /\ SubSeq(queue, 1, Len(records)) = records

C9_Witness ==
    /\ outcome = "ok"
    /\ \A i \in Indices : writers[i].calls = <<"commit", "wait_merging_threads">>

C9_WitnessFailed ==
    /\ outcome = "failed"
    /\ ~redelivered
    /\ \E i \in Indices : once[i].seen

\* C10 (Redelivery safety): once a polled set has been applied to an index
\* and committed, applying the same set again in the same order and
\* committing leaves the same documents in the index.
C10_RedeliverySafe ==
    \A i \in Indices : once[i].seen => committed[i] = once[i].docs

C10_Witness ==
    \E i \in Indices :
        /\ redelivered
        /\ once[i].again
        /\ writers[i].sealed
        /\ \E k \in 1..Len(records) :
              records[k].kind = "IndexSingleDoc" /\ records[k].index_id = i
        /\ \E k \in 1..Len(records) :
              records[k].kind = "DeleteSingleDoc" /\ records[k].index_id = i

(***************************************************************************)
(* Claims about the FIFO queue and concurrent invocations                  *)
(***************************************************************************)
IndexIdsOf(recs) == { recs[k].index_id : k \in 1..Len(recs) }

\* C11 (Per-index single-flight and FIFO): two invocations that run at the
\* same time never hold writers for the same index id and never have
\* batches of the same index among their polled sets; and a batch is handled
\* only when every batch of its index that was sent before it and is still in
\* the queue comes before it in the same polled set.
C11_SingleFlightFifo ==
    /\ \A w1, w2 \in Workers :
          w1 # w2 =>
             /\ inv[w1].held \cap inv[w2].held = {}
             /\ IndexIdsOf(inv[w1].records) \cap IndexIdsOf(inv[w2].records) = {}
    /\ \A w \in Workers : \A k \in 1..Len(inv[w].records) : \A j \in 1..Len(fifo) :
          ( /\ fifo[j].index_id = inv[w].records[k].index_id
            /\ fifo[j].n < inv[w].records[k].n )
          => \E h \in 1..(k - 1) : inv[w].records[h] = fifo[j]

C11_Witness ==
    \E w1, w2 \in Workers :
        /\ w1 # w2
        /\ inv[w1].running /\ inv[w1].held # {}
        /\ inv[w2].running /\ inv[w2].held # {}
        /\ \E j \in 1..Len(fifo) :
              /\ fifo[j].index_id \in inv[w1].held
              /\ fifo[j] \notin InFlight

(***************************************************************************)
(* Claims about the generations the worker commits                         *)
(***************************************************************************)
\* C12 (Id uniqueness): in every committed generation of every index, at
\* most one document carries any given __id value.
C12_IdUniqueness ==
    \A i \in Indices, id \in DocIds : NumWithId(committed[i], id) <= 1

\* The part of C12 that delete-then-insert does keep: at most one document
\* of a committed generation has a given value as its first __id value.
C12_FirstIdUnique ==
    \A i \in Indices, id \in DocIds :
        SumOver(committed[i], { d \in DOMAIN committed[i] : get_first(d) = id }) <= 1

(***************************************************************************)
(* Claims about the HTTP handlers                                          *)
(***************************************************************************)
\* A JSON value that is not an object, gives a number for a text field, or
\* gives no value for any field of the schema.
Invalid(json) ==
    \/ json.t # "object"
    \/ json.id.t = "number"
    \/ json.title.t = "number"
    \/ json.id.v = <<>> /\ json.title.v = <<>>

\* C13 (Validation errors never reach the worker): a post_index whose body is
\* invalid, and a batch_index with an invalid element anywhere in its body,
\* answer 400 and send nothing to the queue.
C13_InvalidNeverEnqueued ==
    ( /\ response.op \in { "post_index", "batch_index" }
      /\ \E k \in 1..Len(response.body) : Invalid(response.body[k]) )
    => /\ response.status = 400
       /\ response.enqueued = 0
       /\ Len(queue) = sent

C13_Witness ==
    /\ response.op = "batch_index"
    /\ Len(response.body) = 2
    /\ ~Invalid(response.body[1])
    /\ Invalid(response.body[2])
    /\ response.status = 400
    /\ queue # <<>>

C13_WitnessPost ==
    /\ response.op = "post_index"
    /\ response.error = "EmptyDoc"
    /\ queue # <<>>

(***************************************************************************)
(* Claims about one invocation of the worker                               *)
(***************************************************************************)
\* C14 (Decode failure is fatal and applies nothing): when a body of the
\* polled set is absent or is not a WriterMessage, the invocation has failed
\* without opening a writer: no index was loaded or created, no generation
\* was committed, and every polled message is still in the queue.
C14_DecodeFailureAppliesNothing ==
    (\E k \in 1..Len(records) : ~Decodable(records[k])) =>
        /\ pc = "idle"
        /\ outcome = "failed"
        /\ acked = 0
        /\ \A i \in Indices : writers[i] = NoWriter
        /\ location = start.location
        /\ committed = start.committed
        /\ Len(queue) >= Len(records)
        /\ SubSeq(queue, 1, Len(records)) = records

C14_Witness ==
    /\ Len(records) = 2
    /\ records[1].kind = "IndexSingleDoc"
    /\ records[1].document.ids # <<>>
    /\ records[2] = BadJson
    /\ outcome = "failed"
    /\ location[records[1].index_id] = "absent"

C14_WitnessNoBody ==
    /\ Len(records) = 2
    /\ records[1].kind = "DeleteSingleDoc"
    /\ records[2] = NoBody
    /\ outcome = "failed"

(***************************************************************************)
(* Claims about delete in the file store                                   *)
(***************************************************************************)
WrittenThenDeleted(s, p) == written[<<s, p>>] # Never /\ ~present[<<s, p>>]

\* C15 (delete removes the header record only): for a path that was written
\* and then deleted, exists answers false, list_files leaves the path out
\* and get_content still returns the content that was written; the content
\* record is unchanged, and so are the records of every other path.
C15_DeleteRemovesHeaderOnly ==
    /\ \A s \in StoreIds, p \in Paths :
          /\ HasHeader(table, s, p) <=> present[<<s, p>>]
          /\ ContentOf(table, s, p) = written[<<s, p>>]
    /\ (lastOp.status = "Ok" /\ lastOp.op \in { "exists", "get_content" }) =>
          ( WrittenThenDeleted(lastOp.store, lastOp.path) =>
              /\ lastOp.op = "exists" => lastOp.value = FALSE
              /\ lastOp.op = "get_content" => lastOp.value = written[LastKey] )
    /\ (lastOp.status = "Ok" /\ lastOp.op = "list_files") =>
          \A p \in Paths : WrittenThenDeleted(lastOp.store, p) => p \notin lastOp.value

\* The part of C15 about the records and the consistent read of exists.
C15_RecordsAfterDelete ==
    /\ \A s \in StoreIds, p \in Paths :
          /\ HasHeader(table, s, p) <=> present[<<s, p>>]
          /\ ContentOf(table, s, p) = written[<<s, p>>]
    /\ (lastOp.status = "Ok" /\ lastOp.op = "exists") =>
          ( WrittenThenDeleted(lastOp.store, lastOp.path) => lastOp.value = FALSE )

(***************************************************************************)
(* Claims about the write pipeline                                         *)
(***************************************************************************)
\* The n-th message sent has been acknowledged after an invocation that
\* returned Ok, and a searcher opened now holds what that invocation's
\* messages ask for.
AppliedAndVisible(n) ==
    /\ sent - Len(queue) >= n
    /\ outcome = "ok"
    /\ \A i \in IndexIdsOf(records) : Reflects(SearcherDocs(i), records, i)

\* C16 (Asynchronous, eventually applied writes): post_index and batch_index
\* answer without touching any index; under fair delivery and no permanent
\* failure every message they sent is eventually applied and committed by an
\* invocation that returns Ok, and a reader opened then observes it.
C16_EventuallyApplied ==
    /\ [][response' # response => (committed' = committed /\ location' = location)]_vars
    /\ \A n \in 1..MaxSent : (sent >= n) ~> AppliedAndVisible(n)

C16_Witness ==
    /\ response.status = 200
    /\ response.op = "batch_index"
    /\ Len(queue) = 2
    /\ outcome = "failed"
    /\ \A i \in Indices : committed[i] = EmptyIndex

C16_WitnessApplied ==
    /\ AppliedAndVisible(2)
    /\ \E i \in Indices : \E d \in DOMAIN committed[i] : Carries(d, generate_id(2))

(***************************************************************************)
(* Claims about the writer table of an invocation                          *)
(***************************************************************************)
\* The positions of the messages of index i that the apply loop has handled.
Handled(i) == { k \in 1..(cursor - 1) : records[k].index_id = i }

\* C17 (One writer per index per invocation): an invocation starts with an
\* empty writer table; while it runs and after it returned Ok, the index of
\* every message handled so far has been loaded exactly once and has one
\* open writer that holds the staged ops of all those messages, and no other
\* index has been loaded or has a writer.
C17_OneWriterPerIndex ==
    /\ (pc = "apply" /\ cursor = 1) => \A i \in Indices : writers[i] = NoWriter
    /\ (pc \in { "apply", "commit" } \/ outcome = "ok") =>
          \A i \in Indices :
              /\ writers[i].open <=> Handled(i) # {}
              /\ writers[i].loads = IF Handled(i) = {} THEN 0 ELSE 1
              /\ Len(writers[i].ops) =
                     2 * Cardinality({ k \in Handled(i) : records[k].kind = "IndexSingleDoc" })
                       + Cardinality({ k \in Handled(i) : records[k].kind = "DeleteSingleDoc" })

C17_Witness ==
    \E i, j \in Indices :
        /\ pc = "commit"
        /\ redelivered
        /\ Cardinality(Handled(i)) = 2
        /\ writers[i].loads = 1
        /\ Len(writers[i].ops) = 3
        /\ ~writers[j].open

(***************************************************************************)
(* Claims about what an invocation leaves in the indexes                   *)
(***************************************************************************)
\* The writer of index i after the first n messages of recs, computed from
\* the messages alone.
RECURSIVE StagedBy(_, _, _)
StagedBy(recs, i, n) ==
    IF n = 0 THEN NewWriter
    ELSE LET w == StagedBy(recs, i, n - 1)
             m == recs[n]
         IN  IF m.index_id # i THEN w
             ELSE IF m.kind = "IndexSingleDoc" THEN index_doc(w, m.document)
             ELSE delete_doc(w, m.doc_id)

\* The generation of index i that the invocation's messages for i lead to.
NewGeneration(i) ==
    ApplyOps(start.committed[i], StagedBy(records, i, Len(records)).ops)

\* C18 (Commit is the only atomicity boundary): after a failed invocation,
\* every index whose writer had committed holds its new generation, every
\* other index holds exactly the generation the invocation started from,
\* and every polled message is still in the queue, unacknowledged.
C18_CommitIsAtomicityBoundary ==
    (outcome = "failed" /\ \A k \in 1..Len(records) : Decodable(records[k])) =>
        /\ acked = 0
        /\ Len(queue) >= Len(records)
        /\ SubSeq(queue, 1, Len(records)) = records
        /\ \A i \in Indices :
              committed[i] = IF writers[i].sealed THEN NewGeneration(i)
                             ELSE start.committed[i]

C18_Witness ==
    \E i, j \in Indices :
        /\ outcome = "failed"
        /\ writers[i].sealed
        /\ committed[i] # start.committed[i]
        /\ ~writers[j].sealed
        /\ \E k \in 1..Len(records) :
              /\ records[k].index_id = j
              /\ records[k].kind = "IndexSingleDoc"
              /\ records[k].document.ids # <<>>
              /\ Count(committed[j], records[k].document) = 0

\* The messages of recs that are addressed to index i, in their order.
Addressed(recs, i) == SelectSeq(recs, LAMBDA m : m.index_id = i)

\* What the messages addressed to index i stage, whatever lies between them.
StagedAlone(recs, i) == StagedBy(Addressed(recs, i), i, Len(Addressed(recs, i))).ops

\* C19 (Cross-index independence): the writer of an index holds the ops of
\* the messages addressed to that index and of no other, and the generation
\* an invocation commits to an index is the one that the messages addressed
\* to it lead to, in their relative order, wherever the messages of other
\* indexes lie in the polled set; an index without messages is untouched.
C19_CrossIndexIndependence ==
    (pc \in { "apply", "commit" } \/ outcome = "ok") =>
        \A i \in Indices :
            /\ writers[i].ops = StagedAlone(SubSeq(records, 1, cursor - 1), i)
            /\ committed[i] =
                  IF writers[i].sealed
                  THEN ApplyOps(start.committed[i], StagedAlone(records, i))
                  ELSE start.committed[i]

C19_Witness ==
    \E i, j \in Indices :
        /\ i # j
        /\ outcome = "ok"
        /\ Len(records) = 2
        /\ records[1].index_id = i /\ records[1].kind = "IndexSingleDoc"
        /\ records[2].index_id = j /\ records[2].kind = "IndexSingleDoc"
        /\ committed[i] # start.committed[i]
        /\ committed[j] # start.committed[j]

\* The k-th message of recs is a Delete of an id that no document of its
\* index carries: none in the generation the invocation started from, and
\* none staged by an earlier message of the polled set.
AbsentDelete(recs, k) ==
    /\ recs[k].kind = "DeleteSingleDoc"
    /\ NumWithId(start.committed[recs[k].index_id], recs[k].doc_id) = 0
    /\ \A j \in 1..(k - 1) :
          recs[j].index_id = recs[k].index_id => ~Touches(recs[j], recs[k].doc_id)

\* The first n messages of recs without the Deletes of absent ids.
RECURSIVE WithoutAbsentDeletes(_, _)
WithoutAbsentDeletes(recs, n) ==
    IF n = 0 THEN <<>>
    ELSE IF AbsentDelete(recs, n) THEN WithoutAbsentDeletes(recs, n - 1)
    ELSE Append(WithoutAbsentDeletes(recs, n - 1), recs[n])

\* C20 (Delete of an absent id is a no-op): the generation an invocation
\* commits to an index is the one its messages lead to with every Delete of
\* an absent id left out: such a Delete changes no document of the index.
C20_AbsentDeleteIsNoOp ==
    \A i \in Indices :
        writers[i].sealed =>
            committed[i] =
                ApplyOps(start.committed[i],
                         StagedAlone(WithoutAbsentDeletes(records, Len(records)), i))

\* An invocation whose only message for a non-empty index is a Delete of an
\* absent id has returned Ok and left the index as it was.
C20_Witness ==
    \E i \in Indices :
        /\ outcome = "ok"
        /\ Len(records) = 1
        /\ records[1].index_id = i
        /\ AbsentDelete(records, 1)
        /\ writers[i].sealed
        /\ committed[i] # EmptyIndex
        /\ committed[i] = start.committed[i]

(***************************************************************************)
(* Claims about load_index                                                 *)
(***************************************************************************)
Damaged == \E i \in LoadIds, state \in {"corrupt", "unreadable"} : Damage(i, state)

\* A step in which a query handler called load_index(i).
Loads(i) == searcher = NoSearcher /\ searcher' # NoSearcher /\ searcher'.index_id = i

\* C21 (Open-or-create never resets an index): no step of a handler changes
\* what is at a location that exists; a location comes to hold an index only
\* from nothing, and then an empty index of an id that has a schema; a load
\* of a location that holds an index gives the committed generation as it
\* is; and the committed generation of an index changes only by a commit of
\* a writer, to what the writer's staged ops make of it.
C21_OpenNeverResets ==
    [][Damaged \/ \A i \in IndexIds :
        /\ location[i] # "absent" => location'[i] = location[i]
        /\ (location[i] = "absent" /\ location'[i] = "present") =>
               (load_schema(i) /\ committed[i] = EmptyIndex /\ committed'[i] = EmptyIndex)
        /\ (Loads(i) /\ location[i] = "present") =>
               /\ searcher'.panic = ""
               /\ searcher'.docs = committed[i]
               /\ committed' = committed
        /\ committed'[i] # committed[i] =>
               /\ i \in Indices
               /\ writers[i].open
               /\ writers'[i].calls = <<"commit">>
               /\ committed'[i] = ApplyOps(committed[i], writers[i].ops)]_vars

\* A query handler has opened an index that holds a committed document, after
\* the worker loaded the same index.
C21_Witness ==
    /\ searcher.panic = ""
    /\ searcher.calls = <<"PatheryDirectory::open", "Index::open">>
    /\ \E d \in Documents : Count(searcher.docs, d) = 1
    /\ committed[searcher.index_id] = searcher.docs
    /\ outcome = "ok"

\* C22 (load_index failure kinds): a load of a location that exists but does
\* not hold a readable index ends with the panic of the open and has not
\* called fs::create_dir; a load of a location that does not exist, for an
\* id without a schema, ends with the schema loader's error.
C22_LoadFailureKinds ==
    [][\A i \in IndexIds : Loads(i) =>
        /\ location[i] \in {"empty", "corrupt", "unreadable"} =>
               /\ searcher'.panic = "Index should be openable"
               /\ \A k \in 1..Len(searcher'.calls) : searcher'.calls[k] # "fs::create_dir"
        /\ (location[i] = "absent" /\ ~load_schema(i)) =>
               searcher'.panic = "SchemaResolutionError"]_vars

\* What holds of the code: every such load fails, and leaves an existing
\* location as it is.
C22_LoadFails ==
    [][\A i \in IndexIds : Loads(i) =>
        /\ (location[i] \in {"empty", "corrupt", "unreadable"}
                \/ (location[i] = "absent" /\ ~load_schema(i))) => searcher'.panic # ""
        /\ location[i] \in {"empty", "corrupt"} =>
               searcher'.panic = "Index should be openable"
        /\ location[i] = "unreadable" =>
               /\ searcher'.panic = "Directory should be creatable"
               /\ location'[i] = "unreadable"
        /\ (location[i] = "absent" /\ ~load_schema(i)) =>
               /\ searcher'.panic = "SchemaResolutionError"
               /\ location'[i] = "empty"]_vars

(***************************************************************************)
(* Claims about replacement and isolation in the file store                *)
(***************************************************************************)
HeaderRecords(tbl, s, p) ==
    { x \in tbl : x.pk = format_file_header_pk(s) /\ x.sk = header_sk(p) }

ContentRecords(tbl, s, p) ==
    { x \in tbl : x.pk = format_file_content_pk(s, p) }

\* C23 (Wholesale replacement): a path that was written has exactly one
\* header record, list_files() holds it, and get_content(p) returns the
\* content of the last completed write_file(p, _) in full (empty when the
\* path was never written).
C23_WholesaleReplacement ==
    /\ \A k \in StoreKeys : present[k] => Cardinality(HeaderRecords(table, k[1], k[2])) = 1
    /\ lastOp.status = "Ok" =>
        /\ lastOp.op = "list_files" =>
               \A p \in Paths : present[<<lastOp.store, p>>] => p \in lastOp.value
        /\ lastOp.op = "get_content" =>
               lastOp.value = IF present[LastKey] THEN written[LastKey]
                              ELSE IF written[LastKey] = Never THEN <<>>
                              ELSE lastOp.value

\* The records are replaced whole: one header record for a path that is
\* present, one content record holding the whole content of the last
\* completed write, and a reader gets a whole content value or nothing.
C23_RecordsReplacedWhole ==
    /\ \A k \in StoreKeys :
        /\ Cardinality(HeaderRecords(table, k[1], k[2])) = IF present[k] THEN 1 ELSE 0
        /\ ContentRecords(table, k[1], k[2]) =
               IF written[k] = Never THEN {} ELSE { content_item(k[1], k[2], written[k]) }
    /\ (lastOp.op = "get_content" /\ lastOp.status = "Ok") =>
        /\ lastOp.value \in Contents
        /\ written[LastKey] = Never => lastOp.value = <<>>
    /\ (lastOp.op = "list_files" /\ lastOp.status = "Ok") =>
        lastOp.value \subseteq { p \in Paths : written[<<lastOp.store, p>>] # Never }

(***************************************************************************)
(* Claims about the ids of enqueued documents                              *)
(***************************************************************************)
GeneratedSet == { GeneratedIds[k] : k \in 1..Len(GeneratedIds) }

\* The document enqueued for a request element carries the id: the __id
\* string of the element when it has one, a generated id otherwise.
EnqueuedWithId(json, document, doc_id) ==
    /\ Carries(document, doc_id)
    /\ IF json.id.t = "string"
       THEN doc_id = Head(json.id.v) /\ document.ids = <<doc_id>>
       ELSE doc_id \in GeneratedSet /\ document.ids[Len(document.ids)] = doc_id

WithId(bodies) ==
    \A k \in 1..Len(bodies) :
        bodies[k].kind = "IndexSingleDoc" => bodies[k].document.ids # <<>>

\* C24 (Every enqueued document has an id): every document in the queue and
\* in a polled set has an __id value, so the worker's index_doc does not
\* fail on a missing __id; the document post_index enqueues carries the id
\* post_index returns, which is the request's __id string when it has one
\* and a generated id otherwise, and so does every document batch_index
\* enqueues.
C24_EnqueuedDocumentsHaveIds ==
    /\ [](WithId(queue) /\ WithId(records))
    /\ [][(response' # response /\ response'.status = 200) =>
            \A k \in 1..response'.enqueued :
                LET json == response'.body[k]
                    document == queue'[Len(queue) + k].document
                IN  IF response'.op = "post_index"
                    THEN EnqueuedWithId(json, document, response'.doc_id)
                    ELSE \E id \in DocIds \cup GeneratedSet :
                             EnqueuedWithId(json, document, id)]_vars

\* post_index has answered a request without __id with a generated id, and
\* the worker has applied and committed the document that carries it.
C24_Witness ==
    /\ response.op = "post_index"
    /\ response.status = 200
    /\ response.body[1].id.t = "missing"
    /\ response.doc_id \in GeneratedSet
    /\ outcome = "ok"
    /\ acked >= 1
    /\ \E d \in DOMAIN committed["i1"] : get_first(d) = response.doc_id

\* batch_index has enqueued a document with the request's id and one with a
\* generated id.
C24_WitnessBatch ==
    /\ response.op = "batch_index"
    /\ response.status = 200
    /\ Len(queue) = 2
    /\ queue[1].document.ids = <<"d1">>
    /\ queue[2].document.ids[1] \in GeneratedSet

\* The records of a store: the items that carry its store_id.
RecordsOf(tbl, s) == { x \in tbl : x.store_id = s }

\* C25 (Store isolation): an operation on a store leaves the records of
\* every store with a different id as they are, and get_content on a store
\* gives no content for a path that this store never wrote.
C25_StoreIsolation ==
    [][/\ \A t \in IsoStoreIds :
            lastOp'.store # t => RecordsOf(table', t) = RecordsOf(table, t)
       /\ (lastOp'.op = "get_content" /\ lastOp'.status = "Ok"
               /\ written[<<lastOp'.store, lastOp'.path>>] = Never) =>
            lastOp'.value = <<>>]_vars

\* What the key formats give: the header records of a store are its own,
\* and two stores whose ids do not hold the separator share no record.
Plain(s) == \A k \in 1..Len(s) : s[k] # "|"

C25_PlainIdsIsolated ==
    [][/\ \A t \in IsoStoreIds :
            lastOp'.store # t =>
                /\ \A p \in IsoPaths : HasHeader(table', t, p) = HasHeader(table, t, p)
                /\ (Plain(t) /\ Plain(lastOp'.store)) =>
                       RecordsOf(table', t) = RecordsOf(table, t)
       /\ (lastOp'.op = "exists" /\ lastOp'.status = "Ok") =>
            lastOp'.value = present[<<lastOp'.store, lastOp'.path>>]
       /\ (lastOp'.op = "list_files" /\ lastOp'.status = "Ok") =>
            \A p \in lastOp'.value :
                <<lastOp'.store, p>> \in IsoKeys /\ written[<<lastOp'.store, p>>] # Never]_vars

====
